---- MODULE Spec2Model ----
(***************************************************************************)
(* WanI2V.generate (src/wan/image2video.py): the image-to-video sampling   *)
(* loop.  One call of generate is modelled as a sequential process whose   *)
(* position is pc; the calls it makes on its collaborators (encoders, VAE, *)
(* denoiser, scheduler, progress callback, process group) are appended to  *)
(* the history variable calls.  The cancellation flag self._interrupt is   *)
(* written by another thread at any moment (action Interrupt); the caller   *)
(* creates it, cleared, before the call (the constructor does not).        *)
(*                                                                         *)
(* Values.  An optional Python value is a sequence of length <= 1: None is *)
(* <<>> and a present value x is <<x>>.  A prediction tensor is one row of *)
(* the (batch, features) view, held as an exact rational vector            *)
(* [n |-> numerators, d |-> common denominator].  A latent is             *)
(* [id, shape]: id 0 is the initial noise, id k the value returned by the  *)
(* k-th scheduler step.  Device moves and cache flushes (offload_model)    *)
(* change no value and are left out.                                       *)
(***************************************************************************)
EXTENDS Integers, Sequences, FiniteSets, TLC

VARIABLES
    self,               \* fields of the WanI2V object and of self.model
    args,               \* arguments of this generate call
    pc,                 \* position in generate
    interrupt,          \* self._interrupt
    interrupt_at,       \* history: <<>> or <<[pc, i]>> where the flag was set
    frame_num,          \* local frame_num (incremented at line 200)
    lat_frames,         \* local lat_frames
    noise,              \* <<>> until line 228
    msk,                \* <<>> until line 230; then msk[c][g][h][w]
    timesteps,          \* the schedule, <<>> until solver selection
    latent,             \* <<>> until line 315
    i,                  \* loop index, -1 before the first iteration
    slg_layers_local,   \* line 359-361
    noise_pred_cond,    \* <<>> or <<tensor>>
    noise_pred_uncond,  \* <<>> or <<tensor>>
    noise_pred,         \* <<>> or <<tensor>>
    step_args,          \* history: arguments of the last scheduler.step call
    guide_args,         \* history: the predictions the last combination read
    video,              \* local video
    result,             \* <<>> until generate returns; then <<returned value>>
    calls,              \* history: collaborator calls in order
    peers               \* the other processes of the group: where each one is

\* the variables of this process's generate call
localVars == <<self, args, pc, interrupt, interrupt_at, frame_num, lat_frames, noise,
               msk, timesteps, latent, i, slg_layers_local, noise_pred_cond,
               noise_pred_uncond, noise_pred, step_args, guide_args, video, result, calls>>

vars == <<localVars, peers>>

-----------------------------------------------------------------------------
(* Bounds of the model and constants of the program.                       *)

MaxSteps == 3
MaxFrameGroups == 3
MaxLat == 2
MaxPeers == 2

vae_stride_t == 4
MaskRepeats == 4
LatentChannels == 16
DefaultSteps == 40
DefaultCfgZeroStep == 5
DefaultGuideScale == 5
EpsInv == 100000000
SlgDen == 4

None == <<>>
Some(x) == <<x>>

-----------------------------------------------------------------------------
(* Exact arithmetic on prediction rows.                                    *)

Vec(v) == [n |-> v, d |-> 1]

RECURSIVE SumSeq(_)
SumSeq(s) == IF s = <<>> THEN 0 ELSE Head(s) + SumSeq(Tail(s))

\* torch.sum(a * b, dim=1) for rows with denominator 1
Dot(a, b) == SumSeq([k \in 1..Len(a.n) |-> a.n[k] * b.n[k]])

\* a - b, elementwise
TSub(a, b) ==
    IF a.d = b.d
    THEN [n |-> [k \in 1..Len(a.n) |-> a.n[k] - b.n[k]], d |-> a.d]
    ELSE [n |-> [k \in 1..Len(a.n) |-> a.n[k] * b.d - b.n[k] * a.d], d |-> a.d * b.d]

\* a + b, elementwise
TAdd(a, b) ==
    IF a.d = b.d
    THEN [n |-> [k \in 1..Len(a.n) |-> a.n[k] + b.n[k]], d |-> a.d]
    ELSE [n |-> [k \in 1..Len(a.n) |-> a.n[k] * b.d + b.n[k] * a.d], d |-> a.d * b.d]

\* s * a for an integer scalar s
TScale(s, a) == [n |-> [k \in 1..Len(a.n) |-> s * a.n[k]], d |-> a.d]

\* a * q for a rational scalar q = [n, d]
TMul(a, q) == [n |-> [k \in 1..Len(a.n) |-> a.n[k] * q.n], d |-> a.d * q.d]

\* equality of two rational rows as values
TEq(a, b) ==
    /\ Len(a.n) = Len(b.n)
    /\ IF a.d = b.d
       THEN a.n = b.n
       ELSE \A k \in 1..Len(a.n) : a.n[k] * b.d = b.n[k] * a.d

\* dot(P, N) / ||N||^2, the scale without the epsilon of line 36
optimized_scale_no_eps(positive_flat, negative_flat) ==
    [n |-> Dot(positive_flat, negative_flat) * EpsInv,
     d |-> Dot(negative_flat, negative_flat) * EpsInv]

\* optimized_scale: dot(P, N) / (||N||^2 + 1e-8), as the rational
\* (dot * 10^8) / (||N||^2 * 10^8 + 1)
optimized_scale(positive_flat, negative_flat) ==
    LET dot_product == Dot(positive_flat, negative_flat)
        squared_norm_e8 == Dot(negative_flat, negative_flat) * EpsInv + 1
    IN  [n |-> dot_product * EpsInv, d |-> squared_norm_e8]

\* rescaling at every step of a run with cfg_star_switch
GuidanceBranch_always(P, N, step, cfg_star_switch, cfg_zero_step) ==
    IF cfg_star_switch THEN TMul(N, optimized_scale(P, N)) ELSE N

\* the value of noise_pred_uncond after lines 399-410: line 408 assigns
\* noise_pred, which line 411 overwrites, and leaves noise_pred_uncond alone
GuidanceBranch(P, N, step, cfg_star_switch, cfg_zero_step) ==
    IF cfg_star_switch
    THEN IF step <= cfg_zero_step
         THEN N
         ELSE TMul(N, optimized_scale(P, N))
    ELSE N

\* line 411
Combine(P, Nprime, guide_scale) == TAdd(Nprime, TScale(guide_scale, TSub(P, Nprime)))

-----------------------------------------------------------------------------
(* Conditioning mask, lines 230-242.  A mask before grouping is a sequence *)
(* of frames, each frame a lat_h x lat_w matrix.                           *)

Frame(v, lat_h, lat_w) == [h \in 1..lat_h |-> [w \in 1..lat_w |-> v]]

\* torch.repeat_interleave(m, repeats=r, dim=1) for a one-frame slice m
RepeatInterleave(m, r) == [k \in 1..(Len(m) * r) |-> m[((k - 1) \div r) + 1]]

\* m[:, a:b] with Python slice bounds already made absolute
Slice(m, a, b) == IF b <= a THEN <<>> ELSE SubSeq(m, a + 1, b)

\* m[:, a:b] = 0
ZeroSlice(m, a, b, lat_h, lat_w) ==
    [k \in 1..Len(m) |-> IF a < k /\ k <= b THEN Frame(0, lat_h, lat_w) ELSE m[k]]

\* lines 230-240, up to the view
MaskFrames_start_only(fnum, any_end_frame, add_frames, lat_h, lat_w) ==
    LET ones == [k \in 1..fnum |-> Frame(1, lat_h, lat_w)]
        z == ZeroSlice(ones, 1, fnum, lat_h, lat_w)
    IN  RepeatInterleave(Slice(z, 0, 1), MaskRepeats) \o Slice(z, 1, fnum)

MaskFrames(fnum, any_end_frame, add_frames, lat_h, lat_w) ==
    LET ones == [k \in 1..fnum |-> Frame(1, lat_h, lat_w)]
    IN  IF any_end_frame
        THEN LET z == ZeroSlice(ones, 1, fnum - 1, lat_h, lat_w)
             IN  IF add_frames
                 THEN RepeatInterleave(Slice(z, 0, 1), MaskRepeats)
                      \o Slice(z, 1, fnum - 1)
                      \o RepeatInterleave(Slice(z, fnum - 1, fnum), MaskRepeats)
                 ELSE RepeatInterleave(Slice(z, 0, 1), MaskRepeats)
                      \o Slice(z, 1, fnum)
        ELSE LET z == ZeroSlice(ones, 1, fnum, lat_h, lat_w)
             IN  RepeatInterleave(Slice(z, 0, 1), MaskRepeats) \o Slice(z, 1, fnum)

\* lines 241-242: view(1, L // 4, 4, h, w), transpose(1, 2), [0]:
\* result[c][g] is frame 4 * (g - 1) + c of the ungrouped mask
MaskView(m) ==
    [c \in 1..4 |-> [g \in 1..(Len(m) \div 4) |-> m[4 * (g - 1) + c]]]

\* lines 194-201
\* fnum is frame_num as it stands when the formula is evaluated (after the
\* increment of line 200 on the end-anchor path)
LatFrames_unshifted(fnum, any_end_frame, add_frames) == (fnum - 1) \div vae_stride_t + 1

LatFrames(fnum, any_end_frame, add_frames) ==
    IF any_end_frame /\ add_frames
    THEN (fnum - 2) \div vae_stride_t + 2
    ELSE (fnum - 1) \div vae_stride_t + 1

\* lines 195-200
FrameNum(fnum, any_end_frame, add_frames) ==
    IF any_end_frame /\ add_frames THEN fnum + 1 ELSE fnum

-----------------------------------------------------------------------------
(* Selective-layer window, lines 359-361.  slg_start and slg_end are held  *)
(* as numerators over SlgDen; SlgDen is a power of two, so the float       *)
(* product slg_start * sampling_steps is exact and int() is the floor.     *)

SlgLayersLocal_inclusive(step, steps, slg_start, slg_end, slg_layers) ==
    IF (slg_start * steps) \div SlgDen <= step /\ step <= (slg_end * steps) \div SlgDen
    THEN slg_layers
    ELSE None

SlgLayersLocal(step, steps, slg_start, slg_end, slg_layers) ==
    IF (slg_start * steps) \div SlgDen <= step /\ step < (slg_end * steps) \div SlgDen
    THEN slg_layers
    ELSE None

\* scheduler.timesteps after set_timesteps(sampling_steps) / retrieve_timesteps:
\* an ordered sequence of sampling_steps decreasing values
Timesteps(steps) == [k \in 1..steps |-> steps - k + 1]


-----------------------------------------------------------------------------
(* Small decisions of generate, one operator per condition of the code.    *)

\* lines 293, 301: the solver names generate accepts
SolverSupported_any(name) == TRUE

SolverSupported(name) == name \in {"unipc", "dpm++"}

\* line 350
ComputesThreshold_always(enable_teacache) == TRUE

ComputesThreshold(enable_teacache) == enable_teacache

\* line 357: enumerate(timesteps) has an element after index step
LoopContinues_short(step, schedule) == step + 1 < Len(schedule) - 1

LoopContinues(step, schedule) == step + 1 < Len(schedule)

\* lines 370, 380, 392: if self._interrupt, at the poll that follows the
\* evaluation of the given kind
PollSeesFlag_not_after_uncond(kind, flag) == kind # "uncond" /\ flag

PollSeesFlag_not_after_cond(kind, flag) == kind # "cond" /\ flag

PollSeesFlag(kind, flag) == flag

\* lines 373-379: the conditional call is given no slg_layers argument
CondCallSlg_local(local) == local

CondCallSlg(local) == None

\* line 429
CallbackArgs_one_based(step) == <<step + 1, FALSE>>

CallbackArgs(step) == <<step, FALSE>>

\* line 438
DecodesOnRank_any(rank) == TRUE

DecodesOnRank(rank) == rank = 0

\* line 282, 440, 442
HasEndAnchor_any_end(any_end_frame, add_frames) == any_end_frame

HasEndAnchor(any_end_frame, add_frames) == any_end_frame /\ add_frames

\* one collaborator call (or poll of the flag) in the history
Ev(op, step, kind, slg, lat, arg) ==
    [op |-> op, i |-> step, kind |-> kind, slg |-> slg, latent |-> lat, arg |-> arg]

any_end_frame == args.img2

-----------------------------------------------------------------------------
(* Inputs.                                                                 *)

\* rows the denoiser may return
PredRows == {<<0, 0>>, <<1, 0>>, <<0, 1>>, <<1, 1>>, <<-1, 1>>}

SlgLayers == <<9>>

\* the defaults of the signature, lines 133-156, with small sizes
BaseArgs ==
    [sample_solver |-> "unipc", sampling_steps |-> 2, joint_pass |-> FALSE,
     callback |-> FALSE, img2 |-> FALSE, add_frames_for_end_image |-> TRUE,
     frame_num |-> vae_stride_t + 1, lat_h |-> 1, lat_w |-> 1,
     slg_layers |-> None, slg_start |-> 0, slg_end |-> SlgDen,
     cfg_star_switch |-> TRUE, cfg_zero_step |-> DefaultCfgZeroStep,
     guide_scale |-> DefaultGuideScale]

BaseSelf ==
    [rank |-> 0, enable_teacache |-> FALSE, teacache_start_step |-> 0,
     teacache_multiplier |-> 2, dist_initialized |-> FALSE, outputs |-> {<<1, 0>>}]

\* control flow: solver, step count, evaluation mode, callback, end anchor,
\* rank, acceleration cache, process group
ControlArgs ==
    {[BaseArgs EXCEPT !.sample_solver = s, !.sampling_steps = n, !.joint_pass = j,
                      !.callback = c, !.img2 = e[1], !.add_frames_for_end_image = e[2],
                      !.slg_layers = Some(SlgLayers)] :
        s \in {"unipc", "dpm++", "euler"}, n \in 1..MaxSteps, j \in BOOLEAN,
        c \in BOOLEAN, e \in {<<FALSE, TRUE>>, <<TRUE, TRUE>>, <<TRUE, FALSE>>}}

ControlSelf ==
    {[BaseSelf EXCEPT !.rank = r, !.enable_teacache = t, !.dist_initialized = d] :
        r \in {0, 1}, t \in BOOLEAN, d \in BOOLEAN}

\* process group: both evaluation modes, this process as rank 0 or 1
DistArgs == {[BaseArgs EXCEPT !.joint_pass = j] : j \in BOOLEAN}

DistSelf == {[BaseSelf EXCEPT !.rank = r, !.dist_initialized = TRUE] : r \in {0, 1}}

\* guidance arithmetic: every pair of rows, both switches, both branches
GuideArgs ==
    {[BaseArgs EXCEPT !.joint_pass = j, !.cfg_star_switch = c, !.cfg_zero_step = z,
                      !.guide_scale = g] :
        j \in BOOLEAN, c \in BOOLEAN, z \in {0, DefaultCfgZeroStep},
        g \in {2, DefaultGuideScale}}

GuideSelf == {[BaseSelf EXCEPT !.outputs = PredRows]}

\* conditioning mask: frame counts 4n+1, latent sizes, the three anchor
\* configurations
MaskArgs ==
    {[BaseArgs EXCEPT !.sampling_steps = 1, !.joint_pass = j, !.frame_num = vae_stride_t * n + 1,
                      !.lat_h = h, !.lat_w = w,
                      !.img2 = e[1], !.add_frames_for_end_image = e[2]] :
        j \in BOOLEAN, n \in 0..MaxFrameGroups, h \in 1..MaxLat, w \in 1..MaxLat,
        e \in {<<FALSE, TRUE>>, <<TRUE, TRUE>>, <<TRUE, FALSE>>}}

\* selective-layer window: every window in quarters, and the default run
\* of 40 steps with the window (0.0, 0.5)
SlgArgs ==
    {[BaseArgs EXCEPT !.sampling_steps = n, !.joint_pass = j, !.slg_layers = l,
                      !.slg_start = a, !.slg_end = b] :
        n \in 1..MaxSteps, j \in BOOLEAN, l \in {None, Some(SlgLayers)},
        a \in 0..SlgDen, b \in 0..SlgDen}
    \cup
    {[BaseArgs EXCEPT !.sampling_steps = DefaultSteps, !.joint_pass = j,
                      !.slg_layers = Some(SlgLayers), !.slg_start = 0,
                      !.slg_end = SlgDen \div 2] : j \in BOOLEAN}

InitLocals(A, S) ==
    /\ args \in A
    /\ self \in S
    /\ pc = "prepare"
    /\ interrupt = FALSE
    /\ interrupt_at = None
    /\ frame_num = args.frame_num
    /\ lat_frames = 0
    /\ noise = None
    /\ msk = None
    /\ timesteps = <<>>
    /\ latent = None
    /\ i = -1
    /\ slg_layers_local = None
    /\ noise_pred_cond = None
    /\ noise_pred_uncond = None
    /\ noise_pred = None
    /\ step_args = None
    /\ guide_args = None
    /\ video = None
    /\ result = None
    /\ calls = <<>>

\* a run with no other process
InitWith(A, S) == InitLocals(A, S) /\ peers = <<>>

\* a process group of 2..MaxPeers + 1 processes that all call generate
InitDist ==
    /\ InitLocals(DistArgs, DistSelf)
    /\ peers \in {[q \in 1..n |-> "running"] : n \in 1..MaxPeers}

Init == InitWith(ControlArgs, ControlSelf)
InitGuide == InitWith(GuideArgs, GuideSelf)
InitMask == InitWith(MaskArgs, {BaseSelf})
InitSlg == InitWith(SlgArgs, {BaseSelf})

-----------------------------------------------------------------------------
(* generate, lines 193-457.                                                *)

\* lines 193-242: frame arithmetic, noise tensor, conditioning mask
Prepare ==
    /\ pc = "prepare"
    /\ frame_num' = FrameNum(args.frame_num, any_end_frame, args.add_frames_for_end_image)
    /\ lat_frames' = LatFrames(frame_num', any_end_frame, args.add_frames_for_end_image)
    /\ noise' = Some([id |-> 0,
                      shape |-> <<LatentChannels, lat_frames', args.lat_h, args.lat_w>>])
    /\ msk' = Some(MaskView(MaskFrames(frame_num', any_end_frame,
                                       args.add_frames_for_end_image,
                                       args.lat_h, args.lat_w)))
    /\ pc' = "encode"
    /\ UNCHANGED <<peers, self, args, guide_args, interrupt, interrupt_at, timesteps, latent, i,
                   slg_layers_local, noise_pred_cond, noise_pred_uncond, noise_pred,
                   step_args, video, result, calls>>

\* lines 244-283: text encoder (prompt, negative prompt), image encoder,
\* VAE encode
Encode ==
    /\ pc = "encode"
    /\ calls' = calls \o
         << Ev("text_encoder", -1, "prompt", None, -1, <<>>),
            Ev("text_encoder", -1, "n_prompt", None, -1, <<>>),
            Ev("clip", -1, "", None, -1, <<>>),
            Ev("vae_encode", -1, "", None, -1,
               <<HasEndAnchor(any_end_frame, args.add_frames_for_end_image)>>) >>
    /\ pc' = "solver"
    /\ UNCHANGED <<peers, self, args, guide_args, interrupt, interrupt_at, frame_num, lat_frames, noise,
                   msk, timesteps, latent, i, slg_layers_local, noise_pred_cond,
                   noise_pred_uncond, noise_pred, step_args, video, result>>

\* lines 293-312: the scheduler and its timesteps, or NotImplementedError
SelectSolver ==
    /\ pc = "solver"
    /\ IF SolverSupported(args.sample_solver)
       THEN /\ timesteps' = Timesteps(args.sampling_steps)
            /\ calls' = Append(calls, Ev("scheduler", -1, args.sample_solver, None, -1,
                                         <<args.sampling_steps>>))
            /\ pc' = "preloop"
       ELSE /\ pc' = "raised"
            /\ UNCHANGED <<timesteps, calls>>
    /\ UNCHANGED <<peers, self, args, guide_args, interrupt, interrupt_at, frame_num, lat_frames, noise,
                   msk, latent, i, slg_layers_local, noise_pred_cond,
                   noise_pred_uncond, noise_pred, step_args, video, result>>

\* lines 315-355: latent = noise, teacache threshold, start callback
BeforeLoop ==
    /\ pc = "preloop"
    /\ latent' = noise
    /\ calls' = calls
         \o (IF ComputesThreshold(self.enable_teacache)
             THEN << Ev("compute_teacache_threshold", -1, "", None, -1,
                        <<self.teacache_start_step, timesteps, self.teacache_multiplier>>) >>
             ELSE <<>>)
         \o (IF args.callback
             THEN << Ev("callback", -1, "", None, -1, <<-1, TRUE>>) >>
             ELSE <<>>)
    /\ pc' = "for"
    /\ UNCHANGED <<peers, self, args, guide_args, interrupt, interrupt_at, frame_num, lat_frames, noise,
                   msk, timesteps, i, slg_layers_local, noise_pred_cond,
                   noise_pred_uncond, noise_pred, step_args, video, result>>

\* lines 357-366: next (i, t) of enumerate(timesteps), step number for the
\* collaborator, selective-layer window; or the end of the loop
ForNext ==
    /\ pc = "for"
    /\ IF LoopContinues(i, timesteps)
       THEN /\ i' = i + 1
            /\ calls' = Append(calls, Ev("set_step_no_for_lora", i + 1, "", None, -1, <<>>))
            /\ slg_layers_local' = SlgLayersLocal(i + 1, args.sampling_steps, args.slg_start,
                                                  args.slg_end, args.slg_layers)
            /\ pc' = "model"
       ELSE /\ pc' = "decode"
            /\ UNCHANGED <<i, calls, slg_layers_local>>
    /\ UNCHANGED <<peers, self, args, guide_args, interrupt, interrupt_at, frame_num, lat_frames, noise,
                   msk, timesteps, latent, noise_pred_cond, noise_pred_uncond,
                   noise_pred, step_args, video, result>>

\* lines 367-369: the fused evaluation returns both predictions
EvalJoint ==
    /\ pc = "model"
    /\ args.joint_pass
    /\ \E p \in self.outputs, n \in self.outputs :
          /\ noise_pred_cond' = Some(Vec(p))
          /\ noise_pred_uncond' = Some(Vec(n))
    /\ calls' = Append(calls, Ev("model", i, "both", slg_layers_local, latent[1].id,
                                 <<timesteps[i + 1]>>))
    /\ pc' = "poll_both"
    /\ UNCHANGED <<peers, self, args, guide_args, interrupt, interrupt_at, frame_num, lat_frames, noise,
                   msk, timesteps, latent, i, slg_layers_local, noise_pred, step_args,
                   video, result>>

\* lines 373-379: the conditional evaluation
EvalCond ==
    /\ pc = "model"
    /\ ~args.joint_pass
    /\ \E p \in self.outputs : noise_pred_cond' = Some(Vec(p))
    /\ calls' = Append(calls, Ev("model", i, "cond", CondCallSlg(slg_layers_local),
                                 latent[1].id, <<timesteps[i + 1]>>))
    /\ pc' = "poll_cond"
    /\ UNCHANGED <<peers, self, args, guide_args, interrupt, interrupt_at, frame_num, lat_frames, noise,
                   msk, timesteps, latent, i, slg_layers_local, noise_pred_uncond,
                   noise_pred, step_args, video, result>>

\* lines 382-391: the unconditional evaluation
EvalUncond ==
    /\ pc = "model_uncond"
    /\ \E n \in self.outputs : noise_pred_uncond' = Some(Vec(n))
    /\ calls' = Append(calls, Ev("model", i, "uncond", slg_layers_local, latent[1].id,
                                 <<timesteps[i + 1]>>))
    /\ pc' = "poll_uncond"
    /\ UNCHANGED <<peers, self, args, guide_args, interrupt, interrupt_at, frame_num, lat_frames, noise,
                   msk, timesteps, latent, i, slg_layers_local, noise_pred_cond,
                   noise_pred, step_args, video, result>>

PollKind == IF pc = "poll_both" THEN "both" ELSE IF pc = "poll_cond" THEN "cond" ELSE "uncond"

\* lines 370-371, 380-381, 392-393: if self._interrupt: return None
Poll ==
    /\ pc \in {"poll_both", "poll_cond", "poll_uncond"}
    /\ LET seen == PollSeesFlag(PollKind, interrupt)
       IN  /\ calls' = Append(calls, Ev("poll", i, PollKind, None, -1, <<seen>>))
           /\ IF seen
              THEN /\ result' = Some(None)
                   /\ pc' = "returned"
              ELSE /\ pc' = (IF pc = "poll_cond" THEN "model_uncond" ELSE "guide")
                   /\ UNCHANGED result
    /\ UNCHANGED <<peers, self, args, guide_args, interrupt, interrupt_at, frame_num, lat_frames, noise,
                   msk, timesteps, latent, i, slg_layers_local, noise_pred_cond,
                   noise_pred_uncond, noise_pred, step_args, video>>

\* lines 394-413: CFG-Zero-star and the final combination
Guidance ==
    /\ pc = "guide"
    /\ noise_pred' = Some(Combine(noise_pred_cond[1],
                                  GuidanceBranch(noise_pred_cond[1], noise_pred_uncond[1], i,
                                                 args.cfg_star_switch, args.cfg_zero_step),
                                  args.guide_scale))
    /\ guide_args' = Some([i |-> i, cond |-> noise_pred_cond[1],
                           uncond |-> noise_pred_uncond[1]])
    /\ noise_pred_uncond' = None
    /\ pc' = "step"
    /\ UNCHANGED <<peers, self, args, interrupt, interrupt_at, frame_num, lat_frames, noise,
                   msk, timesteps, latent, i, slg_layers_local, noise_pred_cond,
                   step_args, video, result, calls>>

\* lines 421-426: the latent that sample_scheduler.step returns for step
\* `step` replaces the loop's latent
StepLatent_kept(lat, step) == lat

StepLatent(lat, step) == [lat EXCEPT !.id = step + 1]

\* lines 415-426: sample_scheduler.step(noise_pred, t, latent)
SolverStep ==
    /\ pc = "step"
    /\ step_args' = Some([i |-> i, pred |-> noise_pred[1], t |-> timesteps[i + 1],
                          latent |-> latent[1].id])
    /\ calls' = Append(calls, Ev("step", i, "", None, latent[1].id, <<timesteps[i + 1]>>))
    /\ latent' = Some(StepLatent(latent[1], i))
    /\ pc' = "callback"
    /\ UNCHANGED <<peers, self, args, guide_args, interrupt, interrupt_at, frame_num, lat_frames, noise,
                   msk, timesteps, i, slg_layers_local, noise_pred_cond,
                   noise_pred_uncond, noise_pred, video, result>>

\* lines 428-429
Callback ==
    /\ pc = "callback"
    /\ calls' = IF args.callback
                THEN Append(calls, Ev("callback", i, "", None, -1, CallbackArgs(i)))
                ELSE calls
    /\ pc' = "for"
    /\ UNCHANGED <<peers, self, args, guide_args, interrupt, interrupt_at, frame_num, lat_frames, noise,
                   msk, timesteps, latent, i, slg_layers_local, noise_pred_cond,
                   noise_pred_uncond, noise_pred, step_args, video, result>>

\* lines 432-447: decode on rank 0, trimming the frame added for the end
\* anchor; the decoder returns one pixel frame per frame of frame_num
Decode ==
    /\ pc = "decode"
    /\ IF DecodesOnRank(self.rank)
       THEN /\ calls' = Append(calls, Ev("vae_decode", -1, "", None, latent[1].id,
                   <<HasEndAnchor(any_end_frame, args.add_frames_for_end_image)>>))
            /\ video' = Some([latent |-> latent[1].id,
                              frames |-> IF HasEndAnchor(any_end_frame,
                                                         args.add_frames_for_end_image)
                                         THEN frame_num - 1 ELSE frame_num,
                              trimmed |-> HasEndAnchor(any_end_frame,
                                                       args.add_frames_for_end_image)])
       ELSE /\ video' = None
            /\ UNCHANGED calls
    /\ pc' = "finish"
    /\ UNCHANGED <<peers, self, args, guide_args, interrupt, interrupt_at, frame_num, lat_frames, noise,
                   msk, timesteps, latent, i, slg_layers_local, noise_pred_cond,
                   noise_pred_uncond, noise_pred, step_args, result>>

\* dist.barrier() of line 455 returns once every process of the group has
\* called it
BarrierOpen == \A q \in DOMAIN peers : peers[q] \in {"barrier", "done"}

\* lines 449-457: barrier when the process group is initialized, return
\* video; at pc = "finish" this process waits in the barrier
Finish ==
    /\ pc = "finish"
    /\ self.dist_initialized => BarrierOpen
    /\ calls' = IF self.dist_initialized
                THEN Append(calls, Ev("barrier", -1, "", None, -1, <<>>))
                ELSE calls
    /\ result' = Some(video)
    /\ pc' = "returned"
    /\ UNCHANGED <<peers, self, args, guide_args, interrupt, interrupt_at, frame_num, lat_frames, noise,
                   msk, timesteps, latent, i, slg_layers_local, noise_pred_cond,
                   noise_pred_uncond, noise_pred, step_args, video>>

\* another thread sets self._interrupt while generate runs
Interrupt ==
    /\ pc \notin {"returned", "raised"}
    /\ ~interrupt
    /\ interrupt' = TRUE
    /\ interrupt_at' = Some([pc |-> pc, i |-> i])
    /\ UNCHANGED <<peers, self, args, guide_args, pc, frame_num, lat_frames, noise, msk, timesteps,
                   latent, i, slg_layers_local, noise_pred_cond, noise_pred_uncond,
                   noise_pred, step_args, video, result, calls>>

Next ==
    \/ Prepare
    \/ Encode
    \/ SelectSolver
    \/ BeforeLoop
    \/ ForNext
    \/ EvalJoint
    \/ EvalCond
    \/ EvalUncond
    \/ Poll
    \/ Guidance
    \/ SolverStep
    \/ Callback
    \/ Decode
    \/ Finish
    \/ Interrupt

\* this process has called dist.barrier()
MainArrived == pc = "finish" \/ (pc = "returned" /\ \E k \in 1..Len(calls) : calls[k].op = "barrier")

\* lines 370-371, 380-381, 392-393 in process q: its poll sees its own flag
\* and generate returns None there, without reaching line 455
PeerCancel(q) ==
    /\ q \in DOMAIN peers
    /\ peers[q] = "running"
    /\ peers' = [peers EXCEPT ![q] = "returned_none"]
    /\ UNCHANGED localVars

\* lines 449-455 in process q: it finished sampling and calls dist.barrier()
PeerArrive(q) ==
    /\ q \in DOMAIN peers
    /\ peers[q] = "running"
    /\ peers' = [peers EXCEPT ![q] = "barrier"]
    /\ UNCHANGED localVars

\* lines 455-457 in process q: the barrier releases it and generate returns
PeerPass(q) ==
    /\ q \in DOMAIN peers
    /\ peers[q] = "barrier"
    /\ MainArrived
    /\ BarrierOpen
    /\ peers' = [peers EXCEPT ![q] = "done"]
    /\ UNCHANGED localVars

PeerStep(q) == PeerCancel(q) \/ PeerArrive(q) \/ PeerPass(q)

NextDist ==
    \/ Next
    \/ \E q \in 1..MaxPeers : PeerCancel(q)
    \/ \E q \in 1..MaxPeers : PeerArrive(q)
    \/ \E q \in 1..MaxPeers : PeerPass(q)

Spec == Init /\ [][Next]_vars
SpecGuide == InitGuide /\ [][Next]_vars
SpecMask == InitMask /\ [][Next]_vars
SpecSlg == InitSlg /\ [][Next]_vars

\* every process keeps running: generate takes its next step, and so does
\* each peer
SpecDist ==
    /\ InitDist
    /\ [][NextDist]_vars
    /\ WF_vars(Next)
    /\ \A q \in 1..MaxPeers : WF_vars(PeerStep(q))

-----------------------------------------------------------------------------
(* Reading the history.                                                    *)

Idx(op) == {k \in 1..Len(calls) : calls[k].op = op}

ModelIdx == Idx("model")
StepIdx == Idx("step")

\* a cancellation poll saw the flag set
PollSaw == \E k \in Idx("poll") : calls[k].arg[1]

\* the step at which a poll saw the flag set
CancelStep == (CHOOSE k \in Idx("poll") : calls[k].arg[1])

IsCallback(e) == e.op = "callback"
CallbackLog == SelectSeq(calls, IsCallback)

\* positions of generate inside step i: up to the last poll of the step,
\* and after it
BeforeLastPoll == {"model", "poll_both", "poll_cond", "model_uncond", "poll_uncond"}
AfterLastPoll == {"guide", "step", "callback"}

-----------------------------------------------------------------------------
(* C1: cancellation.                                                       *)

\* C1 as stated: if the flag becomes true at step k < S-1 (here: before the
\* scheduler step of step k is called), generate returns None and makes no
\* scheduler step for step k or any later step.
C1_Original ==
    interrupt_at # None =>
        LET at == interrupt_at[1]
        IN  (at.pc \in BeforeLastPoll \cup {"guide", "step"}
             /\ at.i < args.sampling_steps - 1)
            => /\ \A k \in StepIdx : calls[k].i < at.i
               /\ (pc = "returned" => result = Some(None))

\* C1, amended: a flag set at step k before the last poll of step k makes
\* generate return None with no scheduler step for step k or later and no
\* decode; a flag set at step k < S-1 after that poll lets the scheduler
\* step of step k happen, and generate returns None at step k+1 with no
\* scheduler step for step k+1 or later and no decode.
C1_Cancellation ==
    interrupt_at # None =>
        LET at == interrupt_at[1]
        IN  /\ at.pc \in BeforeLastPoll
               => /\ \A k \in StepIdx : calls[k].i < at.i
                  /\ Idx("vae_decode") = {}
                  /\ pc \notin {"guide", "step", "callback", "for", "decode", "finish"}
                  /\ (pc = "returned" => result = Some(None) /\ PollSaw
                                         /\ calls[CancelStep].i = at.i)
            /\ (at.pc \in AfterLastPoll /\ at.i < args.sampling_steps - 1)
               => /\ \A k \in StepIdx : calls[k].i <= at.i
                  /\ Idx("vae_decode") = {}
                  /\ pc \notin {"decode", "finish"}
                  /\ (pc = "returned" => /\ result = Some(None) /\ PollSaw
                                         /\ calls[CancelStep].i = at.i + 1
                                         /\ \E k \in StepIdx : calls[k].i = at.i)

\* a run of three steps cancelled during the unconditional evaluation of
\* step 1 has returned
C1_Witness ==
    /\ pc = "returned"
    /\ args.sampling_steps = 3
    /\ interrupt_at = Some([pc |-> "model_uncond", i |-> 1])
    /\ result = Some(None)
    /\ Cardinality(StepIdx) = 1

-----------------------------------------------------------------------------
(* C2: unsupported solver.                                                 *)

EncoderIdx == Idx("text_encoder") \cup Idx("clip") \cup Idx("vae_encode") \cup Idx("vae_decode")

\* C2 as stated: when the configuration error is raised, the noise tensor
\* and the mask have not been created and no encoder or VAE has been called.
C2_Original ==
    pc = "raised" => noise = None /\ msk = None /\ EncoderIdx = {}

\* C2, amended: with a solver name other than unipc and dpm++ generate
\* raises at solver selection, before a schedule exists and before any
\* teacache computation, callback, denoiser evaluation, scheduler step or
\* decode; by then the noise tensor and the mask exist and the text
\* encoder (twice), the image encoder and the VAE encode have been called.
C2_RaisedBeforeSampling ==
    /\ args.sample_solver \notin {"unipc", "dpm++"}
          => pc \in {"prepare", "encode", "solver", "raised"}
    /\ pc = "raised"
          => /\ args.sample_solver \notin {"unipc", "dpm++"}
             /\ noise # None
             /\ msk # None
             /\ [k \in 1..Len(calls) |-> calls[k].op]
                   = <<"text_encoder", "text_encoder", "clip", "vae_encode">>
             /\ timesteps = <<>>
             /\ latent = None
             /\ result = None

C2_Witness ==
    pc = "raised" /\ args.sample_solver = "euler" /\ Len(calls) = 4 /\ noise # None

-----------------------------------------------------------------------------
(* C3: early steps of adaptive rescaling.                                  *)

\* C3: with cfg_star_switch and i <= cfg_zero_step the prediction handed
\* to the scheduler step of step i is guide_scale * P, whatever N is.
C3_EarlyStepScaledCond ==
    (pc = "callback" /\ args.cfg_star_switch /\ i <= args.cfg_zero_step)
        => TEq(step_args[1].pred, TScale(args.guide_scale, noise_pred_cond[1]))

-----------------------------------------------------------------------------
(* C4, C5: conditioning mask.                                              *)

NGroups == Len(msk[1][1])

\* sub-channel c of temporal group g holds v everywhere
SubChannelAll(c, g, v) ==
    \A h \in 1..args.lat_h : \A w \in 1..args.lat_w : msk[1][c][g][h][w] = v

GroupAll(g, v) == \A c \in 1..4 : SubChannelAll(c, g, v)

\* C4 as stated: first group all 1; with an end anchor (extra frame or
\* not) last group all 1; interior groups 0.
C4_Original ==
    msk # None =>
        /\ GroupAll(1, 1)
        /\ (any_end_frame => GroupAll(NGroups, 1))
        /\ \A g \in 2..(NGroups - 1) : GroupAll(g, 0)

\* C4, amended: first group all 1 and interior groups 0; with an end anchor
\* and add_frames_for_end_image the last group is all 1; with an end anchor
\* and no added frame (F > 1) only the fourth sub-channel of the last group
\* is 1 and its first three are 0.
C4_MaskGroups ==
    msk # None =>
        /\ GroupAll(1, 1)
        /\ \A g \in 2..(NGroups - 1) : GroupAll(g, 0)
        /\ (any_end_frame /\ args.add_frames_for_end_image) => GroupAll(NGroups, 1)
        /\ (any_end_frame /\ ~args.add_frames_for_end_image /\ args.frame_num > 1)
              => /\ \A c \in 1..3 : SubChannelAll(c, NGroups, 0)
                 /\ SubChannelAll(4, NGroups, 1)

C4_Witness ==
    /\ msk # None
    /\ any_end_frame
    /\ ~args.add_frames_for_end_image
    /\ args.frame_num = 9
    /\ args.lat_h = 2
    /\ NGroups = 3
    /\ SubChannelAll(4, 3, 1)

\* C5: in each of the three anchor configurations the mask has lat_frames
\* temporal groups, the temporal size of the noise tensor, and the view
\* into groups of four is exact.
C5_GroupsEqualLatFrames ==
    msk # None =>
        /\ \A c \in 1..4 : Len(msk[1][c]) = lat_frames
        /\ noise[1].shape[2] = lat_frames
        /\ Len(MaskFrames(frame_num, any_end_frame, args.add_frames_for_end_image,
                          args.lat_h, args.lat_w)) = 4 * lat_frames

C5_Witness ==
    /\ msk # None
    /\ any_end_frame
    /\ args.add_frames_for_end_image
    /\ args.frame_num = 9
    /\ frame_num = 10
    /\ lat_frames = 4
    /\ NGroups = 4

-----------------------------------------------------------------------------
(* C6, C7: selective-layer window.                                         *)

InWindow(step) ==
    /\ (args.slg_start * args.sampling_steps) \div SlgDen <= step
    /\ step < (args.slg_end * args.sampling_steps) \div SlgDen

\* C6: the evaluation that takes the selective-layer set receives it at
\* step i exactly when floor(start * S) <= i < floor(end * S); for S = 40
\* and the window (0.0, 0.5) that is steps 0..19 and not steps 20..39.
C6_SlgWindow ==
    \A k \in ModelIdx :
        calls[k].kind \in {"uncond", "both"} =>
            /\ calls[k].slg = (IF InWindow(calls[k].i) THEN args.slg_layers ELSE None)
            /\ (/\ args.sampling_steps = 40
                /\ args.slg_start = 0
                /\ 2 * args.slg_end = SlgDen
                /\ args.slg_layers # None)
               => (calls[k].slg # None <=> calls[k].i \in 0..19)

C6_Witness ==
    /\ args.sampling_steps = 40
    /\ \E k \in ModelIdx : calls[k].i = 19 /\ calls[k].kind = "uncond" /\ calls[k].slg # None
    /\ \E k \in ModelIdx : calls[k].i = 20 /\ calls[k].kind = "uncond" /\ calls[k].slg = None

\* C7 as stated: in both modes no denoiser call that computes the
\* conditional prediction receives a selective-layer set.
C7_Original ==
    \A k \in ModelIdx : calls[k].kind \in {"cond", "both"} => calls[k].slg = None

\* C7, amended: in two-call mode the conditional call never receives a
\* selective-layer set and the unconditional call receives the set of the
\* window; in fused mode the single call, which computes both predictions,
\* receives the set of the window.
C7_SlgCallTargets ==
    \A k \in ModelIdx :
        /\ calls[k].kind = "cond" => calls[k].slg = None
        /\ calls[k].kind \in {"uncond", "both"}
              => calls[k].slg = (IF InWindow(calls[k].i) THEN args.slg_layers ELSE None)
        /\ calls[k].kind = "both" <=> args.joint_pass

C7_Witness ==
    /\ ~args.joint_pass
    /\ \E k \in ModelIdx : calls[k].i = 1 /\ calls[k].kind = "cond" /\ calls[k].slg = None
    /\ \E k \in ModelIdx : calls[k].i = 1 /\ calls[k].kind = "uncond" /\ calls[k].slg # None

-----------------------------------------------------------------------------
(* C8: progress callback.                                                  *)

\* C8: a supplied callback is invoked with (-1, True) once before the first
\* step, then with (i, False) for i = 0, 1, ... in order, each right after
\* the scheduler step of step i and before any evaluation of step i+1; a
\* run cancelled at step k issues no callback for step k or later.
C8_CallbackOrder ==
    /\ ~args.callback => Idx("callback") = {}
    /\ \A k \in 1..Len(CallbackLog) :
          CallbackLog[k].arg = (IF k = 1 THEN <<-1, TRUE>> ELSE <<k - 2, FALSE>>)
    /\ \A k \in Idx("callback") :
          calls[k].arg[1] >= 0
             => k > 1 /\ calls[k - 1].op = "step" /\ calls[k - 1].i = calls[k].arg[1]
    /\ args.callback =>
          /\ \A k \in ModelIdx :
                Cardinality({j \in Idx("callback") : j < k}) = calls[k].i + 1
          /\ \A k \in StepIdx :
                Cardinality({j \in Idx("callback") : j < k}) = calls[k].i + 1
          /\ pc \in {"decode", "finish"} \/ (pc = "returned" /\ ~PollSaw)
                => Len(CallbackLog) = args.sampling_steps + 1
          /\ PollSaw => \A k \in Idx("callback") : calls[k].arg[1] < calls[CancelStep].i

\* a run with a callback cancelled at step 2, after the callbacks of the
\* start marker and of steps 0 and 1
C8_Witness ==
    /\ args.callback
    /\ pc = "returned"
    /\ PollSaw
    /\ calls[CancelStep].i = 2
    /\ Len(CallbackLog) = 3

-----------------------------------------------------------------------------
(* C9: iteration count.                                                    *)

EvalsOfStep(j) == {k \in ModelIdx : calls[k].i = j}

IterationCounts ==
    /\ Cardinality(StepIdx) = args.sampling_steps
    /\ \A j \in 0..(args.sampling_steps - 1) :
          /\ Cardinality({k \in StepIdx : calls[k].i = j}) = 1
          /\ Cardinality(EvalsOfStep(j)) = (IF args.joint_pass THEN 1 ELSE 2)
    /\ Cardinality(ModelIdx)
          = (IF args.joint_pass THEN 1 ELSE 2) * args.sampling_steps
    /\ \A d \in Idx("vae_decode") : \A k \in StepIdx \cup ModelIdx : k < d

\* C9 as stated: a run in which no poll sees the flag makes exactly S
\* scheduler steps, 2 evaluations per step (1 in fused mode), and then
\* exactly one decode.
C9_Original ==
    (pc = "returned" /\ ~PollSaw)
        => IterationCounts /\ Cardinality(Idx("vae_decode")) = 1

\* C9, amended: such a run makes exactly S scheduler steps, 2 evaluations
\* per step (1 in fused mode), and then exactly one decode on rank 0 and no
\* decode on any other rank.
C9_ExactIterations ==
    (pc = "returned" /\ ~PollSaw)
        => /\ IterationCounts
           /\ Cardinality(Idx("vae_decode")) = (IF self.rank = 0 THEN 1 ELSE 0)

C9_Witness ==
    /\ pc = "returned"
    /\ ~PollSaw
    /\ self.rank = 1
    /\ ~args.joint_pass
    /\ args.sampling_steps = 3
    /\ Cardinality(ModelIdx) = 6
    /\ Idx("vae_decode") = {}

-----------------------------------------------------------------------------
(* C10: acceleration-cache threshold.                                      *)

TeacacheIdx == Idx("compute_teacache_threshold")

\* C10: the threshold computation is invoked once per call that reaches
\* sampling when the feature is enabled, before the start callback and the
\* first evaluation, with the start step, the whole schedule and the
\* multiplier; never when the feature is disabled, never inside the loop.
C10_TeacacheOnce ==
    /\ Cardinality(TeacacheIdx) <= 1
    /\ ~self.enable_teacache => TeacacheIdx = {}
    /\ (self.enable_teacache
        /\ pc \notin {"prepare", "encode", "solver", "preloop", "raised"})
          => Cardinality(TeacacheIdx) = 1
    /\ \A k \in TeacacheIdx :
          /\ calls[k].arg = <<self.teacache_start_step, timesteps, self.teacache_multiplier>>
          /\ \A j \in 1..Len(calls) :
                calls[j].op \in {"callback", "model", "poll", "step", "set_step_no_for_lora"}
                   => k < j

C10_Witness ==
    /\ self.enable_teacache
    /\ args.callback
    /\ pc = "returned"
    /\ args.sampling_steps = 3
    /\ Cardinality(TeacacheIdx) = 1
    /\ Cardinality(StepIdx) = 3

-----------------------------------------------------------------------------
(* C11: a flag set during the loop.                                        *)

InStep == BeforeLastPoll \cup AfterLastPoll

\* C11 as stated: once the flag is set at any point of a step of the loop
\* (and it is never cleared), generate returns None and never returns a
\* decoded video.
C11_Original ==
    (interrupt_at # None /\ interrupt_at[1].pc \in InStep)
        => /\ Idx("vae_decode") = {}
           /\ (pc = "returned" => result = Some(None))

\* C11, amended: a flag set after the loop has started and before the last
\* poll of the final step S-1 makes generate return None with no decode; a
\* flag set after that poll is never read, and generate completes as if it
\* had not been set (on rank 0 it decodes and returns the video).
C11_Abandon ==
    (interrupt_at # None /\ interrupt_at[1].pc \in InStep \cup {"for"})
        => LET at == interrupt_at[1]
               readable == at.pc \in BeforeLastPoll \/ at.i < args.sampling_steps - 1
           IN  /\ readable
                  => /\ Idx("vae_decode") = {}
                     /\ pc \notin {"decode", "finish"}
                     /\ (pc = "returned" => result = Some(None) /\ PollSaw)
               /\ ~readable
                  => /\ ~PollSaw
                     /\ (pc = "returned"
                           => /\ result = Some(video)
                              /\ (self.rank = 0
                                    => video # None /\ Cardinality(Idx("vae_decode")) = 1))

\* a run of three steps, the flag set while the poll after the conditional
\* evaluation of the last step was pending, has returned None
C11_Witness ==
    /\ pc = "returned"
    /\ args.sampling_steps = 3
    /\ interrupt_at = Some([pc |-> "poll_cond", i |-> 2])
    /\ result = Some(None)
    /\ Cardinality(StepIdx) = 2
    /\ Idx("vae_decode") = {}

-----------------------------------------------------------------------------
(* C12: the frame added for the end anchor.                                *)

\* C12: exactly in the runs with an end anchor and add_frames_for_end_image
\* frame_num is incremented before the noise and the mask are built, the
\* VAE encode and decode calls receive has_end_anchor = true and the last
\* decoded frame is trimmed; in every other run frame_num is unchanged,
\* both calls receive false and nothing is trimmed.
C12_TrimExactly ==
    LET extra == args.img2 /\ args.add_frames_for_end_image
    IN  /\ pc # "prepare" => frame_num = args.frame_num + (IF extra THEN 1 ELSE 0)
        /\ noise # None
              => /\ noise[1].shape[2]
                      = (args.frame_num - 1) \div 4 + (IF extra THEN 2 ELSE 1)
                 /\ 4 * NGroups = args.frame_num + (IF extra THEN 7 ELSE 3)
        /\ \A k \in Idx("vae_encode") : calls[k].arg = <<extra>>
        /\ \A k \in Idx("vae_decode") : calls[k].arg = <<extra>>
        /\ video # None => video[1].trimmed = extra

\* a run with an end anchor and the added frame has decoded and trimmed
C12_Witness ==
    /\ pc = "returned"
    /\ args.img2
    /\ args.add_frames_for_end_image
    /\ frame_num = args.frame_num + 1
    /\ video # None
    /\ video[1].trimmed
    /\ \E k \in Idx("vae_decode") : calls[k].arg = <<TRUE>>

-----------------------------------------------------------------------------
(* C14: what None means.                                                   *)

\* C14 as stated: on every rank generate returns None exactly in the runs
\* where a poll saw the flag; every other run returns a decoded video.
C14_Original ==
    pc = "returned" => (result = Some(None) <=> PollSaw)

\* C14, amended: on rank 0 generate returns None only in a run where a poll
\* saw the flag, and every other run returns the decoded video; on any
\* other rank generate returns None in every run.
C14_NoneOnRankZero ==
    pc = "returned" =>
        /\ PollSaw => result = Some(None)
        /\ (~PollSaw /\ self.rank = 0)
              => /\ result # Some(None)
                 /\ result = Some(video)
                 /\ \E k \in Idx("vae_decode") : calls[k].latent = video[1].latent
        /\ self.rank # 0 => result = Some(None)

\* a run on rank 1 that no poll cancelled has returned None
C14_Witness ==
    /\ pc = "returned"
    /\ self.rank = 1
    /\ ~PollSaw
    /\ result = Some(None)
    /\ Cardinality(StepIdx) = args.sampling_steps

-----------------------------------------------------------------------------
(* C15: where the flag is polled.                                          *)

\* C15: every forward evaluation is followed at once by a poll, polls occur
\* nowhere else; in two-call mode the unconditional evaluation of a step
\* comes after the conditional one and its poll, and is not issued when the
\* flag was set before that poll.
C15_PollAfterEachEval ==
    /\ \A k \in ModelIdx :
          IF k < Len(calls)
          THEN /\ calls[k + 1].op = "poll"
               /\ calls[k + 1].i = calls[k].i
               /\ calls[k + 1].kind = calls[k].kind
          ELSE pc \in {"poll_both", "poll_cond", "poll_uncond"}
    /\ \A k \in Idx("poll") :
          /\ k > 1
          /\ calls[k - 1].op = "model"
          /\ calls[k].arg[1] => k = Len(calls) /\ pc = "returned"
    /\ \A k \in ModelIdx :
          /\ calls[k].kind = "uncond"
                => /\ k > 2
                   /\ calls[k - 2].op = "model"
                   /\ calls[k - 2].kind = "cond"
                   /\ calls[k - 2].i = calls[k].i
                   /\ calls[k - 1].arg = <<FALSE>>
          /\ ~args.joint_pass => calls[k].kind \in {"cond", "uncond"}
    /\ (interrupt_at # None /\ ~args.joint_pass
        /\ interrupt_at[1].pc \in {"model", "poll_cond"})
          => \A k \in ModelIdx :
                ~(calls[k].kind = "uncond" /\ calls[k].i = interrupt_at[1].i)

\* a two-call run cancelled by the poll after the conditional evaluation of
\* step 1: the unconditional evaluation of step 1 was not issued
C15_Witness ==
    /\ ~args.joint_pass
    /\ pc = "returned"
    /\ PollSaw
    /\ calls[CancelStep].kind = "cond"
    /\ calls[CancelStep].i = 1
    /\ Cardinality(ModelIdx) = 3

-----------------------------------------------------------------------------
(* C17: the latent is threaded through the steps.                          *)

\* what C17 says of the calls made so far: latent 0 is the noise and
\* latent j + 1 is the one the Solver Step of step j returned
C17_Threaded ==
    /\ \A k \in ModelIdx \cup StepIdx :
          /\ calls[k].latent = calls[k].i
          /\ calls[k].arg = <<timesteps[calls[k].i + 1]>>
    /\ \A k \in StepIdx :
          calls[k].i > 0 => \E j \in StepIdx : j < k /\ calls[j].i = calls[k].i - 1
    /\ step_args # None => step_args[1].t = timesteps[step_args[1].i + 1]
    /\ latent # None => latent[1].id = Cardinality(StepIdx)
    /\ \A k \in Idx("vae_decode") :
          /\ calls[k].latent = args.sampling_steps
          /\ \E j \in StepIdx : calls[j].i = args.sampling_steps - 1

\* C17: step 0 reads the noise, step i reads the latent the Solver Step of
\* step i - 1 returned, the Solver Step of step i gets the i-th timestep, the
\* schedule is never modified once built, and the decoder receives the
\* latent the last Solver Step returned.
C17_LatentThreading ==
    [][ /\ timesteps # <<>> => timesteps' = timesteps
        /\ C17_Threaded' ]_vars

\* a run of two or more steps has decoded the latent of its last step
C17_Witness ==
    /\ pc = "returned"
    /\ args.sampling_steps >= 2
    /\ Cardinality(StepIdx) = args.sampling_steps
    /\ \E k \in Idx("vae_decode") : calls[k].latent = args.sampling_steps

-----------------------------------------------------------------------------
(* C13, C16: the guided prediction, read from the last combination.        *)

IsZero(t) == \A k \in 1..Len(t.n) : t.n[k] = 0

\* the prediction of the last combination is the one the Solver Step got
PredHanded ==
    (step_args # None /\ step_args[1].i = guide_args[1].i)
        => step_args[1].pred = noise_pred[1]

\* C13: when N is 0 everywhere, alpha has a non-zero denominator and the
\* guided prediction is guide_scale * P, at every step and with
\* cfg_star_switch on or off.
C13_ZeroUncond ==
    (guide_args # None /\ IsZero(guide_args[1].uncond)) =>
        LET P == guide_args[1].cond
            N == guide_args[1].uncond
        IN  /\ optimized_scale(P, N).d > 0
            /\ noise_pred[1].d > 0
            /\ TEq(noise_pred[1], TScale(args.guide_scale, P))
            /\ PredHanded

\* N = 0 and P # 0 were combined at a step where N is rescaled
C13_Witness ==
    /\ pc = "callback"
    /\ args.cfg_star_switch
    /\ i > args.cfg_zero_step
    /\ guide_args[1].i = i
    /\ IsZero(guide_args[1].uncond)
    /\ ~IsZero(guide_args[1].cond)
    /\ step_args[1].pred = TScale(args.guide_scale, guide_args[1].cond)

\* alpha of lines 33-39, written out
C16_Alpha(P, N) == [n |-> Dot(P, N) * EpsInv, d |-> Dot(N, N) * EpsInv + 1]

\* Nprime + guide_scale * (P - Nprime)
C16_Guided(P, Nprime) == TAdd(Nprime, TScale(args.guide_scale, TSub(P, Nprime)))

\* C16: with cfg_star_switch the unconditional prediction is rescaled by
\* alpha exactly at the steps i > cfg_zero_step, where the guided prediction
\* is alpha*N + guide_scale*(P - alpha*N); at every other step, and at every
\* step without cfg_star_switch, it is N + guide_scale*(P - N).
C16_RescaledExactly ==
    guide_args # None =>
        LET P == guide_args[1].cond
            N == guide_args[1].uncond
        IN  /\ IF args.cfg_star_switch /\ guide_args[1].i > args.cfg_zero_step
               THEN TEq(noise_pred[1], C16_Guided(P, TMul(N, C16_Alpha(P, N))))
               ELSE TEq(noise_pred[1], C16_Guided(P, N))
            /\ PredHanded

\* a rescaled step whose alpha is neither 0 nor 1, handed to the Solver
\* Step, after an early step of the same run that was not rescaled
C16_Witness ==
    /\ pc = "callback"
    /\ args.cfg_star_switch
    /\ args.cfg_zero_step = 0
    /\ i = 1
    /\ guide_args[1].i = i
    /\ Dot(guide_args[1].cond, guide_args[1].uncond) # 0
    /\ ~TEq(TMul(guide_args[1].uncond,
                 C16_Alpha(guide_args[1].cond, guide_args[1].uncond)),
            guide_args[1].uncond)
    /\ step_args[1].pred = noise_pred[1]
    /\ ~TEq(noise_pred[1], C16_Guided(guide_args[1].cond, guide_args[1].uncond))

-----------------------------------------------------------------------------
(* C18: the barrier after generation.                                      *)

\* C18: every process that reaches the barrier of line 455 eventually
\* passes it, whichever processes observed cancellation.
C18_BarrierPassed ==
    /\ (pc = "finish") ~> (pc = "returned")
    /\ \A q \in 1..MaxPeers :
          (q \in DOMAIN peers /\ peers[q] = "barrier")
              ~> (q \in DOMAIN peers /\ peers[q] = "done")

====
